---------------------------- MODULE Spec2Model ----------------------------
(***************************************************************************)
(* Model of the inpokedex backend (src/backend/src/app.ts): the startup    *)
(* population of the type-translation cache, the list endpoint             *)
(* GET /api/pokemons and the detail endpoint GET /api/pokemon/:id, on top  *)
(* of an upstream catalog whose calls may each succeed or fail; and of the *)
(* inpokedex frontend (src/frontend/src/App.tsx): the App component, its   *)
(* effects, its IntersectionObserver and its page requests.                *)
(*                                                                         *)
(* Node and the browser run one callback at a time: every action below is  *)
(* one callback (an I/O completion plus the promise continuations it       *)
(* triggers, which drain before the next callback runs).                   *)
(***************************************************************************)
EXTENDS Integers, Sequences, FiniteSets, TLC

(***************************************************************************)
(* Bounds of the model.                                                    *)
(***************************************************************************)
\* number of creatures in the upstream catalog
MaxItems == 3

\* number of page requests the frontend sends in one session
MaxRequests == 3

\* by how many records the catalog may have shifted under a page request
MaxShift == 1

VARIABLES
    initPc,           \* position of the listen callback / loadTypeTranslations
    initLog,          \* what startup has printed so far
    enumFetch,        \* state of the enumeration request
    typeFetch,        \* per category: state of its detail request
    typeKoreanNames,  \* the translation cache
    upSprites,        \* upstream data: the sprites of each creature
    detPc,            \* detail handler: idle, primary, species, sent
    detId,            \* req.params.id
    detFetch,         \* state of the handler's two upstream calls
    detData,          \* pokemonData, once the primary detail has arrived
    detResp,          \* the response sent by the detail handler
    detSent,          \* how many responses the detail handler has sent
    listPc,           \* list handler: idle, list, items, sent
    listQuery,        \* req.query.offset and req.query.limit, as received
    listArgs,         \* offset and limit, as forwarded to upstream
    listPage,         \* listResponse.data, once the reference list has arrived
    itemFetch,        \* per reference: state of its two detail requests
    itemOut,          \* per reference: the record its mapper returned
    itemDone,         \* the references in the order their mappers returned
    listResp,         \* the response sent by the list handler
    listSent,         \* how many responses the list handler has sent
    rendered,         \* App: the state the committed render was computed from
    pending,          \* App: the state with every queued update applied
    effectsPending,   \* App: the passive effects of the last commit have not run yet
    mounted,          \* App: the mount effects have run
    observerDeps,     \* App: [loading, hasMore] at the last run of the observer effect
    observer,         \* App: the IntersectionObserver of the last run of the observer effect
    currentPageForFetchRef,   \* App: currentPageForFetchRef.current
    initialLoadCompletedRef,  \* App: initialLoadCompletedRef.current
    requests,         \* App: the offsets of the page requests sent so far
    inFlight,         \* App: the page requests not answered yet
    received          \* App: the outcomes of the page requests, in order of arrival

startupVars == <<initPc, initLog, enumFetch, typeFetch, typeKoreanNames>>

detailVars == <<detPc, detId, detFetch, detData, detResp, detSent>>

listVars == <<listPc, listQuery, listArgs, listPage, itemFetch, itemOut, itemDone, listResp, listSent>>

appVars == <<rendered, pending, effectsPending, mounted, observerDeps, observer,
             currentPageForFetchRef, initialLoadCompletedRef, requests, inFlight, received>>

vars == <<initPc, initLog, enumFetch, typeFetch, typeKoreanNames, upSprites,
          detPc, detId, detFetch, detData, detResp, detSent,
          listPc, listQuery, listArgs, listPage, itemFetch, itemOut, itemDone, listResp, listSent,
          rendered, pending, effectsPending, mounted, observerDeps, observer,
          currentPageForFetchRef, initialLoadCompletedRef, requests, inFlight, received>>

(***************************************************************************)
(* JavaScript values.  null and undefined are modelled by two strings that *)
(* no upstream payload uses; "" is the empty string.                       *)
(***************************************************************************)
Null == "null"

Undefined == "undefined"

\* JavaScript truthiness of a string-or-null value, as used by `||` and `if`
Truthy(v) == v \notin {Null, Undefined, ""}

\* a || b
OrElse(a, b) == IF Truthy(a) THEN a ELSE b

(***************************************************************************)
(* The upstream catalog (pokeapi.co), as data.                             *)
(***************************************************************************)
\* GET /type?limit=18: the categories the enumeration returns
TypeList == <<"fire", "water", "shadow">>

\* GET type.url: the names list of one category; "shadow" has no ko entry
TypeNames(k) ==
    IF k = "shadow"
    THEN << [language |-> "en", name |-> k] >>
    ELSE << [language |-> "en", name |-> k],
            [language |-> "ko", name |-> "ko_" \o k] >>

\* names.find(n => n.language.name === 'ko')?.name
FindKo(names) ==
    LET hits == { j \in 1..Len(names) : names[j].language = "ko" }
    IN  IF hits = {} THEN Undefined
        ELSE names[CHOOSE j \in hits : \A h \in hits : j <= h].name

\* the catalog's creatures, in catalog order (only the first MaxItems exist)
Names == <<"bulbasaur", "ivysaur", "venusaur", "charmander", "charmeleon", "charizard">>

\* the identifier of the i-th creature, as it appears in URLs
IdStr(i) == ToString(i)

\* POKEAPI_BASE_URL/pokemon/<id>/ after split('/')
RefUrlParts(i) == <<"https:", "", "pokeapi.co", "api", "v2", "pokemon", IdStr(i), "">>

\* one entry of the reference list
Ref(i) == [name |-> Names[i], url |-> RefUrlParts(i)]

\* the category keys of the i-th creature; "stellar" is not in the enumeration
TypesOf(i) ==
    CASE i % 3 = 1 -> <<"fire", "water">>
      [] i % 3 = 2 -> <<"shadow", "stellar">>
      [] OTHER     -> <<"water">>

\* the catalog's sprites of the i-th creature.  `animated` is the chain of values met along
\* versions / generation-v / black-white / animated / front_default and
\* `artwork` the chain other / official-artwork / front_default: "obj" stands
\* for an object, and a chain stops at its first null or undefined level.
SpritesOf(i) ==
    CASE i % 3 = 1 -> [front_default |-> "png_" \o IdStr(i),
                       artwork  |-> <<"obj", "obj", "art_" \o IdStr(i)>>,
                       animated |-> <<"obj", "obj", "obj", "obj", "gif_" \o IdStr(i)>>]
      [] i % 3 = 2 -> [front_default |-> "png_" \o IdStr(i),
                       artwork  |-> <<"obj", "obj", Null>>,
                       animated |-> <<"obj", "obj", "obj", "obj", Null>>]
      [] OTHER     -> [front_default |-> "png_" \o IdStr(i),
                       artwork  |-> <<"obj", "obj", "art_" \o IdStr(i)>>,
                       animated |-> <<"obj", Undefined>>]

\* GET /pokemon/<id>: the primary detail payload
PokemonData(i) ==
    [id      |-> i,
     name    |-> Names[i],
     height  |-> 3 * i + 4,
     weight  |-> 10 * i + 9,
     types   |-> [j \in 1..Len(TypesOf(i)) |-> [slot |-> j, type |-> [name |-> TypesOf(i)[j]]]],
     sprites |-> upSprites[i]]

\* GET /pokemon-species/<id>: every second creature has no ko name
SpeciesData(i) ==
    [names |-> IF i % 2 = 1
               THEN << [language |-> "en", name |-> Names[i]],
                       [language |-> "ko", name |-> "ko_" \o Names[i]] >>
               ELSE << [language |-> "en", name |-> Names[i]] >>]

\* the catalog index of an identifier, 0 when upstream has no such creature
IndexOf(id) ==
    IF \E i \in 1..MaxItems : IdStr(i) = id
    THEN CHOOSE i \in 1..MaxItems : IdStr(i) = id
    ELSE 0

\* identifiers a client asks the detail endpoint for: the catalog and one stranger
RequestIds == { IdStr(i) : i \in 1..MaxItems } \cup {"999"}

(***************************************************************************)
(* Query strings.  A query parameter is a sequence of one-character        *)
(* strings; a missing parameter is undefined, which parseInt reads as the  *)
(* text "undefined".                                                       *)
(***************************************************************************)
\* longest query text of the model
MaxQueryLen == 3

QueryChars == {"0", "1", "-", "x"}

Missing == <<Undefined>>

\* every query text of at most n characters
QueryTexts(n) == UNION { [1..m -> QueryChars] : m \in 0..n }

\* the value of a digit in the given radix, -1 when it is no digit of it
DigitValue(c, radix) ==
    CASE c = "0" -> 0
      [] c = "1" -> 1
      [] OTHER   -> -1

\* the number read from a sequence of digits
RECURSIVE DigitsValue(_, _)
DigitsValue(ds, radix) ==
    IF ds = <<>> THEN 0
    ELSE DigitsValue(SubSeq(ds, 1, Len(ds) - 1), radix) * radix + DigitValue(ds[Len(ds)], radix)

\* the longest prefix of s made of digits
DigitPrefix(s, radix) ==
    LET bad == { j \in 1..Len(s) : DigitValue(s[j], radix) < 0 }
        stop == IF bad = {} THEN Len(s) + 1 ELSE CHOOSE j \in bad : \A h \in bad : j <= h
    IN  SubSeq(s, 1, stop - 1)

\* parseInt(s) without a radix: an optional sign, an optional 0x prefix that
\* selects radix 16, then the longest prefix of digits; <<>> is NaN, <<n>> is n
ParseInt(s) ==
    LET neg    == s # <<>> /\ s[1] = "-"
        body   == IF neg THEN Tail(s) ELSE s
        hex    == Len(body) >= 2 /\ body[1] = "0" /\ body[2] = "x"
        radix  == IF hex THEN 16 ELSE 10
        rest   == IF hex THEN SubSeq(body, 3, Len(body)) ELSE body
        digits == DigitPrefix(rest, radix)
    IN  IF digits = <<>> THEN <<>>
        ELSE << (IF neg THEN -1 ELSE 1) * DigitsValue(digits, radix) >>

\* parseInt(...) || d: NaN and 0 are falsy
OrDefault(parsed, d) == IF parsed = <<>> \/ parsed[1] = 0 THEN d ELSE parsed[1]

(***************************************************************************)
(* Image selection of the list record.                                     *)
(***************************************************************************)
\* every shape the sprites of a primary detail can take, over two references
AnimatedChains ==
    { <<Undefined>>, <<"obj", Undefined>>, <<"obj", "obj", Undefined>>,
      <<"obj", "obj", "obj", Null>>,
      <<"obj", "obj", "obj", "obj", Null>>, <<"obj", "obj", "obj", "obj", "">>,
      <<"obj", "obj", "obj", "obj", "gif_a">>, <<"obj", "obj", "obj", "obj", "gif_b">> }

ArtworkChains ==
    { <<Undefined>>, <<"obj", Undefined>>, <<"obj", "obj", Null>>, <<"obj", "obj", "">>,
      <<"obj", "obj", "art_a">>, <<"obj", "obj", "art_b">> }

SpriteShapes ==
    [front_default : {Null, "png_a", "png_b"}, artwork : ArtworkChains, animated : AnimatedChains]

\* a && a.b && ... : the chain reaches its last level through truthy values
AndChain(chain, depth) == Len(chain) = depth /\ \A j \in 1..depth : Truthy(chain[j])

\* a?.b?.c: undefined as soon as a level is null or undefined
OptChain(chain, depth) == IF Len(chain) = depth THEN chain[depth] ELSE Undefined

\* animatedImageUrl
SelectAnimated(sprites) == IF AndChain(sprites.animated, 5) THEN sprites.animated[5] ELSE Null

\* the two sources of defaultImageUrl in the wrong order
SelectDefaultSpriteFirst(sprites) == OrElse(sprites.front_default, OptChain(sprites.artwork, 3))

\* defaultImageUrl
SelectDefault(sprites) == OrElse(OptChain(sprites.artwork, 3), sprites.front_default)

TypeKeys == { TypeList[j] : j \in 1..Len(TypeList) }

\* typeKoreanNames[k] = v on an object: add or overwrite one key
Put(cache, k, v) == [x \in DOMAIN cache \cup {k} |-> IF x = k THEN v ELSE cache[x]]

\* a lookup that never consults the cache
LabelForRawKey(cache, k) == k

\* typeKoreanNames[k] || k
LabelFor(cache, k) == OrElse(IF k \in DOMAIN cache THEN cache[k] ELSE Undefined, k)

\* no payload / no response yet
NoData == [kind |-> "none"]

NoResp == [status |-> 0]

\* useState initial values: the state of the first render
InitialState ==
    [pokemons |-> <<>>, loading |-> FALSE, hasMore |-> TRUE, page |-> 0, error |-> Null]

\* no IntersectionObserver has been created
NoObserver == [connected |-> FALSE, attached |-> FALSE, loading |-> FALSE, hasMore |-> FALSE]

\* the App component after its first render has been committed: the main view
\* is on screen and the mount effects are due
InitApp ==
    /\ rendered = InitialState
    /\ pending = InitialState
    /\ effectsPending = TRUE
    /\ mounted = FALSE
    /\ observerDeps = [loading |-> FALSE, hasMore |-> TRUE]
    /\ observer = NoObserver
    /\ currentPageForFetchRef = 0
    /\ initialLoadCompletedRef = FALSE
    /\ requests = <<>>
    /\ inFlight = {}
    /\ received = <<>>

\* the state of the process after the module has been evaluated
InitProcess ==
    /\ initPc = "boot"
    /\ initLog = <<>>
    /\ enumFetch = "idle"
    /\ typeFetch = [k \in TypeKeys |-> "idle"]
    /\ typeKoreanNames = <<>>
    /\ detPc = "idle"
    /\ detId = ""
    /\ detFetch = [primary |-> "idle", species |-> "idle"]
    /\ detData = NoData
    /\ detResp = NoResp
    /\ detSent = 0
    /\ listPc = "idle"
    /\ listQuery = [offset |-> Missing, limit |-> Missing]
    /\ listArgs = [offset |-> 0, limit |-> 0]
    /\ listPage = NoData
    /\ itemFetch = <<>>
    /\ itemOut = <<>>
    /\ itemDone = <<>>
    /\ listResp = NoResp
    /\ listSent = 0

\* the process starts; upstream holds the catalog's sprites
Init ==
    /\ InitProcess
    /\ InitApp
    /\ upSprites = [i \in 1..MaxItems |-> SpritesOf(i)]

(***************************************************************************)
(* Startup: app.listen's callback awaits loadTypeTranslations.             *)
(***************************************************************************)
\* the callback starts loadTypeTranslations, which issues the enumeration call
ListenCallback ==
    /\ initPc = "boot"
    /\ initPc' = "enum"
    /\ initLog' = Append(initLog, "loading")
    /\ enumFetch' = "pending"
    /\ UNCHANGED <<typeFetch, typeKoreanNames>>
    /\ UNCHANGED <<appVars, upSprites, detailVars, listVars>>

\* the enumeration arrives: every category's mapper starts and issues its call
TypeListOk ==
    /\ initPc = "enum"
    /\ enumFetch' = "ok"
    /\ typeFetch' = [k \in TypeKeys |-> "pending"]
    /\ initPc' = "fan"
    /\ UNCHANGED <<initLog, typeKoreanNames>>
    /\ UNCHANGED <<appVars, upSprites, detailVars, listVars>>

\* a startup whose enumeration failure escapes loadTypeTranslations, so that
\* the callback never reaches its running message
TypeListFailRethrown ==
    /\ initPc = "enum"
    /\ enumFetch' = "failed"
    /\ initPc' = "done"
    /\ initLog' = Append(initLog, "error")
    /\ UNCHANGED <<typeFetch, typeKoreanNames>>
    /\ UNCHANGED <<appVars, upSprites, detailVars, listVars>>

\* the enumeration fails: catch logs, loadTypeTranslations returns, the
\* callback prints the running message
TypeListFail ==
    /\ initPc = "enum"
    /\ enumFetch' = "failed"
    /\ initPc' = "done"
    /\ initLog' = initLog \o <<"error", "running">>
    /\ UNCHANGED <<typeFetch, typeKoreanNames>>
    /\ UNCHANGED <<appVars, upSprites, detailVars, listVars>>

\* one category's detail arrives: its mapper stores the ko label, if any; when
\* it is the last one Promise.all fulfils and loadTypeTranslations returns
TypeDetailOk(k) ==
    /\ typeFetch[k] = "pending"
    /\ LET koreanName == FindKo(TypeNames(k))
       IN  typeKoreanNames' = IF Truthy(koreanName)
                              THEN Put(typeKoreanNames, k, koreanName)
                              ELSE typeKoreanNames
    /\ typeFetch' = [typeFetch EXCEPT ![k] = "done"]
    /\ IF initPc = "fan" /\ \A x \in TypeKeys : typeFetch'[x] = "done"
       THEN /\ initPc' = "done"
            /\ initLog' = initLog \o <<"complete", "running">>
       ELSE UNCHANGED <<initPc, initLog>>
    /\ UNCHANGED enumFetch
    /\ UNCHANGED <<appVars, upSprites, detailVars, listVars>>

\* one category's detail fails: its mapper rejects; the first rejection
\* rejects Promise.all, catch logs and loadTypeTranslations returns, while the
\* other mappers stay in flight
TypeDetailFail(k) ==
    /\ typeFetch[k] = "pending"
    /\ typeFetch' = [typeFetch EXCEPT ![k] = "failed"]
    /\ IF initPc = "fan"
       THEN /\ initPc' = "done"
            /\ initLog' = initLog \o <<"error", "running">>
       ELSE UNCHANGED <<initPc, initLog>>
    /\ UNCHANGED <<enumFetch, typeKoreanNames>>
    /\ UNCHANGED <<appVars, upSprites, detailVars, listVars>>

(***************************************************************************)
(* GET /api/pokemon/:id                                                    *)
(***************************************************************************)
\* the list handler's message, which names no identifier
DetailErrorMessageGeneric(id) == "Failed to fetch pokemon"

\* `Failed to fetch pokemon ${pokemonId}`
DetailErrorMessage(id) == "Failed to fetch pokemon " \o id

\* types of the detail record: { englishName, koreanName } pairs
DetailTypes(cache, pokemonData) ==
    [j \in 1..Len(pokemonData.types) |->
        [englishName |-> pokemonData.types[j].type.name,
         koreanName  |-> LabelFor(cache, pokemonData.types[j].type.name)]]

\* a record rebuilt field by field, which forgets height and weight
DetailBodyPicked(pokemonData, koreanName, types) ==
    [id |-> pokemonData.id, name |-> koreanName, types |-> types, sprites |-> pokemonData.sprites]

\* { ...pokemonData, name: koreanName, types: types }
DetailBody(pokemonData, koreanName, types) ==
    [f \in DOMAIN pokemonData \cup {"name", "types"} |->
        CASE f = "name"  -> koreanName
          [] f = "types" -> types
          [] OTHER       -> pokemonData[f]]

\* res.status(500).json({ message: `Failed to fetch pokemon ${pokemonId}` })
DetailError(id) == [status |-> 500, message |-> DetailErrorMessage(id)]

\* a handler that issues its two calls together, as the list mappers do
DetailRequestParallel(id) ==
    /\ initPc # "boot"
    /\ detPc = "idle"
    /\ detPc' = "primary"
    /\ detId' = id
    /\ detFetch' = [primary |-> "pending", species |-> "pending"]
    /\ UNCHANGED <<detData, detResp, detSent>>
    /\ UNCHANGED <<appVars, upSprites, startupVars, listVars>>

\* a request arrives once the server listens; the primary detail is requested
DetailRequest(id) ==
    /\ initPc # "boot"
    /\ detPc = "idle"
    /\ detPc' = "primary"
    /\ detId' = id
    /\ detFetch' = [detFetch EXCEPT !.primary = "pending"]
    /\ UNCHANGED <<detData, detResp, detSent>>
    /\ UNCHANGED <<appVars, upSprites, startupVars, listVars>>

\* the primary detail arrives; only then is the species call issued
DetailPrimaryOk ==
    /\ detPc = "primary"
    /\ IndexOf(detId) # 0
    /\ detData' = PokemonData(IndexOf(detId))
    /\ detFetch' = [primary |-> "ok", species |-> "pending"]
    /\ detPc' = "species"
    /\ UNCHANGED <<detId, detResp, detSent>>
    /\ UNCHANGED <<appVars, upSprites, startupVars, listVars>>

\* the primary detail call fails: catch answers 500
DetailPrimaryFail ==
    /\ detPc = "primary"
    /\ detFetch' = [detFetch EXCEPT !.primary = "failed"]
    /\ detResp' = DetailError(detId)
    /\ detSent' = detSent + 1
    /\ detPc' = "sent"
    /\ UNCHANGED <<detId, detData>>
    /\ UNCHANGED <<appVars, upSprites, startupVars, listVars>>

\* the species detail arrives: the record is merged and sent
DetailSpeciesOk ==
    /\ detPc = "species"
    /\ IndexOf(detId) # 0
    /\ detFetch' = [detFetch EXCEPT !.species = "ok"]
    /\ LET speciesData == SpeciesData(IndexOf(detId))
           koreanName  == OrElse(FindKo(speciesData.names), detData.name)
           types       == DetailTypes(typeKoreanNames, detData)
       IN  detResp' = [status |-> 200, body |-> DetailBody(detData, koreanName, types)]
    /\ detSent' = detSent + 1
    /\ detPc' = "sent"
    /\ UNCHANGED <<detId, detData>>
    /\ UNCHANGED <<appVars, upSprites, startupVars, listVars>>

\* a catch block that also drops the translation cache
DetailSpeciesFailDropsCache ==
    /\ detPc = "species"
    /\ detFetch' = [detFetch EXCEPT !.species = "failed"]
    /\ detResp' = DetailError(detId)
    /\ detSent' = detSent + 1
    /\ detPc' = "sent"
    /\ typeKoreanNames' = <<>>
    /\ UNCHANGED <<detId, detData>>
    /\ UNCHANGED <<appVars, upSprites, initPc, initLog, enumFetch, typeFetch, listVars>>

\* the species call fails: catch answers 500
DetailSpeciesFail ==
    /\ detPc = "species"
    /\ detFetch' = [detFetch EXCEPT !.species = "failed"]
    /\ detResp' = DetailError(detId)
    /\ detSent' = detSent + 1
    /\ detPc' = "sent"
    /\ UNCHANGED <<detId, detData>>
    /\ UNCHANGED <<appVars, upSprites, startupVars, listVars>>

(***************************************************************************)
(* GET /api/pokemons                                                       *)
(***************************************************************************)
\* GET /pokemon?offset=&limit=: upstream's answer to a page request it accepts
UpstreamPage(offset, limit) ==
    LET last == IF offset + limit < MaxItems THEN offset + limit ELSE MaxItems
        n    == IF last > offset THEN last - offset ELSE 0
    IN  [count |-> MaxItems, results |-> [j \in 1..n |-> Ref(offset + j)]]

\* upstream answers a page request only for an offset >= 0 and a limit >= 1
UpstreamAccepts(offset, limit) == offset >= 0 /\ limit >= 1

\* parts[parts.length - 2] of url.split('/')
RefId(ref) == ref.url[Len(ref.url) - 1]

\* the record one reference's mapper returns
BuildSummary(ref, pokemonData, speciesData, cache) ==
    [id   |-> RefId(ref),
     name |-> OrElse(FindKo(speciesData.names), ref.name),
     types |-> [j \in 1..Len(pokemonData.types) |->
                   LabelFor(cache, pokemonData.types[j].type.name)],
     animatedImageUrl |-> SelectAnimated(pokemonData.sprites),
     defaultImageUrl  |-> SelectDefault(pokemonData.sprites)]

\* records collected as the mappers return
ValuesByCompletion(out, order) == [j \in 1..Len(order) |-> out[order[j]]]

\* the value Promise.all fulfils with: the mappers' records by position
PromiseAllValues(out, order) == out

\* res.json({ count: listResponse.data.count, results: processedPokemons })
ListOk(page, processedPokemons) ==
    [status |-> 200, count |-> page.count, results |-> processedPokemons]

\* a catch that degrades to an empty page
ListErrorAsEmptyPage == [status |-> 200, count |-> 0, results |-> <<>>]

\* res.status(500).json({ message: 'Failed to fetch pokemons' })
ListError == [status |-> 500, message |-> "Failed to fetch pokemons"]

\* the offset the handler forwards
ForwardedOffset(query) == OrDefault(ParseInt(query.offset), 0)

\* a limit read from the wrong parameter
ForwardedLimitFromOffset(query) == OrDefault(ParseInt(query.offset), 20)

\* the limit the handler forwards
ForwardedLimit(query) == OrDefault(ParseInt(query.limit), 20)

\* a request arrives once the server listens; the reference list is requested
ListRequest(qo, ql) ==
    /\ initPc # "boot"
    /\ listPc = "idle"
    /\ listQuery' = [offset |-> qo, limit |-> ql]
    /\ listArgs' = [offset |-> ForwardedOffset(listQuery'), limit |-> ForwardedLimit(listQuery')]
    /\ listPc' = "list"
    /\ UNCHANGED <<listPage, itemFetch, itemOut, itemDone, listResp, listSent>>
    /\ UNCHANGED <<appVars, upSprites, startupVars, detailVars>>

\* the reference list arrives: every reference's mapper starts and issues its
\* two calls; an empty list fulfils Promise.all at once
ListFetchOk ==
    /\ listPc = "list"
    /\ UpstreamAccepts(listArgs.offset, listArgs.limit)
    /\ listPage' = UpstreamPage(listArgs.offset, listArgs.limit)
    /\ LET n == Len(listPage'.results)
       IN  /\ itemFetch' = [j \in 1..n |-> [detail |-> "pending", species |-> "pending"]]
           /\ itemOut' = [j \in 1..n |-> NoData]
           /\ IF n = 0
              THEN /\ listResp' = ListOk(listPage', PromiseAllValues(<<>>, <<>>))
                   /\ listSent' = listSent + 1
                   /\ listPc' = "sent"
              ELSE /\ listPc' = "items"
                   /\ UNCHANGED <<listResp, listSent>>
    /\ UNCHANGED <<listQuery, listArgs, itemDone>>
    /\ UNCHANGED <<appVars, upSprites, startupVars, detailVars>>

\* the reference-list call fails: catch answers 500
ListFetchFail ==
    /\ listPc = "list"
    /\ listResp' = ListError
    /\ listSent' = listSent + 1
    /\ listPc' = "sent"
    /\ UNCHANGED <<listQuery, listArgs, listPage, itemFetch, itemOut, itemDone>>
    /\ UNCHANGED <<appVars, upSprites, startupVars, detailVars>>

\* one of a reference's two calls succeeds; when both have, its mapper builds
\* the record, and when it is the last mapper Promise.all fulfils and the
\* handler answers 200
ItemFetchOk(i, which) ==
    /\ i \in 1..Len(itemFetch)
    /\ itemFetch[i][which] = "pending"
    /\ itemFetch' = [itemFetch EXCEPT ![i][which] = "ok"]
    /\ IF itemFetch'[i].detail = "ok" /\ itemFetch'[i].species = "ok"
       THEN LET ref == listPage.results[i]
                idx == IndexOf(RefId(ref))
            IN  /\ itemOut' = [itemOut EXCEPT ![i] =
                                  BuildSummary(ref, PokemonData(idx), SpeciesData(idx), typeKoreanNames)]
                /\ itemDone' = Append(itemDone, i)
       ELSE UNCHANGED <<itemOut, itemDone>>
    /\ IF listPc = "items" /\ Len(itemDone') = Len(itemFetch)
       THEN /\ listResp' = ListOk(listPage, PromiseAllValues(itemOut', itemDone'))
            /\ listSent' = listSent + 1
            /\ listPc' = "sent"
       ELSE UNCHANGED <<listPc, listResp, listSent>>
    /\ UNCHANGED <<listQuery, listArgs, listPage>>
    /\ UNCHANGED <<appVars, upSprites, startupVars, detailVars>>

\* a handler that answers on every rejection, not on the first one only
ItemFetchFailAnswersEach(i, which) ==
    /\ i \in 1..Len(itemFetch)
    /\ itemFetch[i][which] = "pending"
    /\ itemFetch' = [itemFetch EXCEPT ![i][which] = "failed"]
    /\ listResp' = ListError
    /\ listSent' = listSent + 1
    /\ listPc' = "sent"
    /\ UNCHANGED <<listQuery, listArgs, listPage, itemOut, itemDone>>
    /\ UNCHANGED <<appVars, upSprites, startupVars, detailVars>>

\* one of a reference's two calls fails: its mapper rejects, and the first
\* rejection rejects Promise.all: catch answers 500 while the other calls
\* stay in flight
ItemFetchFail(i, which) ==
    /\ i \in 1..Len(itemFetch)
    /\ itemFetch[i][which] = "pending"
    /\ itemFetch' = [itemFetch EXCEPT ![i][which] = "failed"]
    /\ IF listPc = "items"
       THEN /\ listResp' = ListError
            /\ listSent' = listSent + 1
            /\ listPc' = "sent"
       ELSE UNCHANGED <<listPc, listResp, listSent>>
    /\ UNCHANGED <<listQuery, listArgs, listPage, itemOut, itemDone>>
    /\ UNCHANGED <<appVars, upSprites, startupVars, detailVars>>

\* the query texts of the requests served in the full model
ServedOffsets == {Missing, <<"1">>}

ServedLimits == {<<"1">>}

StartupNext ==
    \/ ListenCallback
    \/ TypeListOk
    \/ TypeListFail
    \/ \E k \in TypeKeys : TypeDetailOk(k)
    \/ \E k \in TypeKeys : TypeDetailFail(k)

DetailNext ==
    \/ \E id \in RequestIds : DetailRequest(id)
    \/ DetailPrimaryOk
    \/ DetailPrimaryFail
    \/ DetailSpeciesOk
    \/ DetailSpeciesFail

ListNext ==
    \/ ListFetchOk
    \/ ListFetchFail
    \/ \E i \in 1..MaxItems, which \in {"detail", "species"} : ItemFetchOk(i, which)
    \/ \E i \in 1..MaxItems, which \in {"detail", "species"} : ItemFetchFail(i, which)

Next ==
    \/ StartupNext
    \/ DetailNext
    \/ \E qo \in ServedOffsets, ql \in ServedLimits : ListRequest(qo, ql)
    \/ ListNext

Spec == Init /\ [][Next]_vars

(***************************************************************************)
(* The list handler alone, on pages of every size the catalog allows.      *)
(***************************************************************************)
PageOffsets == {Missing, <<"1">>}

PageLimits == {Missing, <<"1">>}

NextPage ==
    \/ ListenCallback
    \/ \E qo \in PageOffsets, ql \in PageLimits : ListRequest(qo, ql)
    \/ ListNext

SpecPage == Init /\ [][NextPage]_vars

(***************************************************************************)
(* Both handlers together, the list handler on pages of every size.        *)
(***************************************************************************)
NextServe ==
    \/ ListenCallback
    \/ DetailNext
    \/ \E qo \in PageOffsets, ql \in PageLimits : ListRequest(qo, ql)
    \/ ListNext

SpecServe == Init /\ [][NextServe]_vars

(***************************************************************************)
(* The list handler's reading of its query, on every query text.           *)
(***************************************************************************)
AllQueries == QueryTexts(MaxQueryLen) \cup {Missing}

NextQuery ==
    \/ ListenCallback
    \/ \E qo \in AllQueries, ql \in PageLimits : ListRequest(qo, ql)
    \/ \E qo \in PageOffsets, ql \in AllQueries : ListRequest(qo, ql)

SpecQuery == Init /\ [][NextQuery]_vars

(***************************************************************************)
(* The list handler on a first creature of every sprite shape.             *)
(***************************************************************************)
InitImage ==
    /\ InitProcess
    /\ InitApp
    /\ \E shape \in SpriteShapes :
          upSprites = [i \in 1..MaxItems |-> IF i = 1 THEN shape ELSE SpritesOf(i)]

NextImage ==
    \/ ListenCallback
    \/ ListRequest(Missing, <<"1">>)
    \/ ListNext

SpecImage == InitImage /\ [][NextImage]_vars

(***************************************************************************)
(* The frontend: the App component (src/frontend/src/App.tsx).             *)
(*                                                                         *)
(* React keeps the state of the committed render and a queue of updates;   *)
(* the updates queued in one callback are applied together by the next     *)
(* render.  `pending` is the committed state with the queue applied, which *)
(* is what a functional updater receives.  A commit attaches and detaches  *)
(* the sentinel's ref; the passive effects of the commit run in a later    *)
(* callback, before the next render.  An IntersectionObserver delivers its *)
(* notifications in callbacks of their own, as long as it is connected.    *)
(***************************************************************************)
backendVars == <<startupVars, upSprites, detailVars, listVars>>

\* const LIMIT = 20
LIMIT == 20

\* the error text set by the catch of fetchPokemonBasicInfo
FetchErrorMessage == "failed to load"

\* a record of the list endpoint, of which the component reads the id
Pokemon(n) == [id |-> IdStr(n)]

\* response.data.results of a page request at an offset: n records in catalog
\* order, from a catalog that has shifted by `shift` records since the
\* previous page was read
PageResults(offset, shift, n) == [j \in 1..n |-> Pokemon(offset - shift + j)]

\* the lengths of the pages that are shorter than LIMIT
ShortLengths == {0, 3}

\* the statement `if (loading && pokemons.length === 0) return <loading screen>`
LoadingScreen(s) == s.loading /\ Len(s.pokemons) = 0

\* the statement `if (error && pokemons.length === 0) return <error screen>`
ErrorScreen(s) == ~LoadingScreen(s) /\ Truthy(s.error) /\ Len(s.pokemons) = 0

\* {hasMore && <div ref={observerRef}>}: the sentinel is part of the main view
SentinelRendered(s) == ~LoadingScreen(s) /\ ~ErrorScreen(s) /\ s.hasMore

\* the records of a page in order, whether or not the list has them already
AppendAll(oldPokemons, newPokemons) == oldPokemons \o newPokemons

\* setPokemons' updater: the new records whose id no old record has are
\* appended in order
AppendUnique(oldPokemons, newPokemons) ==
    oldPokemons \o
        SelectSeq(newPokemons,
                  LAMBDA newPoke : ~\E k \in 1..Len(oldPokemons) : oldPokemons[k].id = newPoke.id)

\* the catch of fetchPokemonBasicInfo: setError(message), setHasMore(false)
FetchCatch(s) == [s EXCEPT !.error = FetchErrorMessage, !.hasMore = FALSE]

\* loadMorePokemons after its await: setPokemons, setHasMore, setPage, and
\* setLoading(false) in finally
AfterFetch(s, newPokemons) ==
    [s EXCEPT !.pokemons = AppendUnique(@, newPokemons),
              !.hasMore  = (Len(newPokemons) = LIMIT),
              !.page     = @ + 1,
              !.loading  = FALSE]

\* loadMorePokemons up to its await, called from a closure that captured
\* `loading` and `hasMore`: the guard, setLoading(true), setError(null), and
\* the request for the page currentPageForFetchRef.current holds
LoadMorePokemons(loading, hasMore, pageRef) ==
    IF loading \/ ~hasMore
    THEN UNCHANGED <<pending, requests, inFlight>>
    ELSE /\ pending' = [pending EXCEPT !.loading = TRUE, !.error = Null]
         /\ requests' = Append(requests, pageRef * LIMIT)
         /\ inFlight' = inFlight \cup {Len(requests) + 1}

\* React renders the queued updates and commits: the sentinel's ref follows
\* the view, and an element that leaves the document stops intersecting
Render ==
    /\ ~effectsPending
    /\ pending # rendered
    /\ rendered' = pending
    /\ effectsPending' = TRUE
    /\ observer' = [observer EXCEPT !.attached = @ /\ SentinelRendered(pending)]
    /\ UNCHANGED <<pending, mounted, observerDeps, currentPageForFetchRef,
                   initialLoadCompletedRef, requests, inFlight, received>>
    /\ UNCHANGED backendVars

\* the passive effects of the last commit: first the cleanup of the observer
\* effect when its dependencies changed, then the three effect bodies in
\* order.  The initial-load effect does nothing once its flag is set, so it is
\* run on every flush.
Effects ==
    /\ effectsPending
    /\ effectsPending' = FALSE
    /\ mounted' = TRUE
    /\ currentPageForFetchRef' = rendered.page
    /\ IF /\ ~initialLoadCompletedRef
          /\ rendered.page = 0 /\ Len(rendered.pokemons) = 0
          /\ ~rendered.loading /\ rendered.hasMore
       THEN /\ initialLoadCompletedRef' = TRUE
            /\ LoadMorePokemons(rendered.loading, rendered.hasMore, currentPageForFetchRef')
       ELSE UNCHANGED <<initialLoadCompletedRef, pending, requests, inFlight>>
    /\ LET deps == [loading |-> rendered.loading, hasMore |-> rendered.hasMore]
       IN  IF mounted /\ deps = observerDeps
           THEN UNCHANGED <<observer, observerDeps>>
           ELSE /\ observerDeps' = deps
                /\ observer' = IF SentinelRendered(rendered)
                               THEN [connected |-> TRUE, attached |-> TRUE,
                                     loading |-> rendered.loading, hasMore |-> rendered.hasMore]
                               ELSE NoObserver
    /\ UNCHANGED <<rendered, received>>
    /\ UNCHANGED backendVars

\* the observer reports that the sentinel is in view: its callback tests the
\* `loading` and `hasMore` it captured and calls the loadMorePokemons it
\* captured
ObserverCallback ==
    /\ observer.connected
    /\ observer.attached
    /\ ~observer.loading /\ observer.hasMore
    /\ Len(requests) < MaxRequests
    /\ LoadMorePokemons(observer.loading, observer.hasMore, currentPageForFetchRef)
    /\ UNCHANGED <<rendered, effectsPending, mounted, observerDeps, observer,
                   currentPageForFetchRef, initialLoadCompletedRef, received>>
    /\ UNCHANGED backendVars

\* a page request is answered 200 with n records
FetchOk(r, shift, n) ==
    /\ r \in inFlight
    /\ shift <= requests[r]
    /\ LET newPokemons == PageResults(requests[r], shift, n)
       IN  /\ pending' = AfterFetch(pending, newPokemons)
           /\ received' = Append(received, [request |-> r, ok |-> TRUE, length |-> n])
    /\ inFlight' = inFlight \ {r}
    /\ UNCHANGED <<rendered, effectsPending, mounted, observerDeps, observer,
                   currentPageForFetchRef, initialLoadCompletedRef, requests>>
    /\ UNCHANGED backendVars

\* a page request fails: fetchPokemonBasicInfo catches and returns [], and
\* loadMorePokemons goes on with the empty page
FetchFail(r) ==
    /\ r \in inFlight
    /\ pending' = AfterFetch(FetchCatch(pending), <<>>)
    /\ received' = Append(received, [request |-> r, ok |-> FALSE, length |-> 0])
    /\ inFlight' = inFlight \ {r}
    /\ UNCHANGED <<rendered, effectsPending, mounted, observerDeps, observer,
                   currentPageForFetchRef, initialLoadCompletedRef, requests>>
    /\ UNCHANGED backendVars

NextApp ==
    \/ Render
    \/ Effects
    \/ ObserverCallback
    \/ \E r \in 1..MaxRequests, shift \in 0..MaxShift, n \in ShortLengths \cup {LIMIT} :
          FetchOk(r, shift, n)
    \/ \E r \in 1..MaxRequests : FetchFail(r)

SpecApp == Init /\ [][NextApp]_vars


(***************************************************************************)
(* Properties.                                                             *)
(***************************************************************************)
\* population is under way: the enumeration or a category call is awaited
PopulationInProgress == initPc \in {"enum", "fan"}

\* a step in which a handler looks labels up in the cache
HandlerReadsCache ==
    \/ detFetch.species = "pending" /\ detFetch'.species = "ok"
    \/ \E i \in 1..Len(itemOut) :
          itemOut[i] = NoData /\ Len(itemOut') = Len(itemOut) /\ itemOut'[i] # NoData

\* the cache a complete population leaves
FullCache == [k \in {"fire", "water"} |-> "ko_" \o k]

\* C1: no list or detail handler reads the translation cache while population
\* is in progress, so that a handler sees the empty or the full cache only.
C1_NoReadDuringPopulation ==
    [][HandlerReadsCache =>
          /\ ~PopulationInProgress
          /\ (DOMAIN typeKoreanNames = {} \/ typeKoreanNames = FullCache)]_vars

\* C2: once loadTypeTranslations has completed, the translation cache is never
\* written again.
C2_NoWriteAfterCompletion ==
    [][initPc = "done" => typeKoreanNames' = typeKoreanNames]_vars

\* the reference-list call or a sub-call of some reference has failed
AnyListFailure ==
    \/ listPc = "sent" /\ listPage = NoData
    \/ \E i \in 1..Len(itemFetch) :
          itemFetch[i].detail = "failed" \/ itemFetch[i].species = "failed"

\* every sub-call of every reference of the page has succeeded
AllSubFetchesOk ==
    /\ listPage # NoData
    /\ Len(itemFetch) = Len(listPage.results)
    /\ \A i \in 1..Len(itemFetch) :
          itemFetch[i].detail = "ok" /\ itemFetch[i].species = "ok"

\* C3: a failed reference-list call or a failed sub-call of any one reference
\* makes the list response a 500 with a message and no results; a 200 is sent
\* only when every sub-call of every reference succeeded.
C3_NoPartialPage ==
    /\ AnyListFailure =>
          /\ listPc = "sent"
          /\ listResp.status = 500
          /\ DOMAIN listResp = {"status", "message"}
    /\ listResp.status = 200 =>
          /\ AllSubFetchesOk
          /\ Len(listResp.results) = Len(listPage.results)

\* a failed page on which another reference's record had already been built
C3_Witness ==
    /\ listResp.status = 500
    /\ \E i \in 1..Len(itemOut) : itemOut[i] # NoData
    /\ \E i \in 1..Len(itemFetch) : itemFetch[i].species = "failed"

\* C4: in a successful list response the i-th record is built from the i-th
\* reference of the upstream list, whatever the order the sub-calls completed in.
C4_ResultsFollowReferences ==
    listResp.status = 200 =>
        /\ Len(listResp.results) = Len(listPage.results)
        /\ \A i \in 1..Len(listPage.results) :
              LET ref == listPage.results[i]
              IN  /\ listResp.results[i].id = RefId(ref)
                  /\ listResp.results[i].name \in {ref.name, "ko_" \o ref.name}

\* a successful page whose first reference was not the first to complete
C4_Witness ==
    /\ listResp.status = 200
    /\ Len(itemDone) >= 2
    /\ itemDone[1] # 1

\* the decimal digits of the model's query alphabet
IsDigit(c) == c \in {"0", "1"}

\* a query text that is an integer literal: an optional minus sign and digits
IsNumeric(text) ==
    /\ text # Missing
    /\ LET digits == IF text # <<>> /\ text[1] = "-" THEN Tail(text) ELSE text
       IN  digits # <<>> /\ \A j \in 1..Len(digits) : IsDigit(digits[j])

\* the value of a sequence of decimal digits
RECURSIVE DecimalOf(_)
DecimalOf(digits) ==
    IF digits = <<>> THEN 0
    ELSE 10 * DecimalOf(SubSeq(digits, 1, Len(digits) - 1))
         + (IF digits[Len(digits)] = "1" THEN 1 ELSE 0)

\* the integer a numeric query text denotes
SuppliedValue(text) ==
    IF text[1] = "-" THEN 0 - DecimalOf(Tail(text)) ELSE DecimalOf(text)

\* the value a client asks for: the one supplied, or the default when the
\* parameter is missing or not numeric
Asked(text, default) == IF IsNumeric(text) THEN SuppliedValue(text) ELSE default

\* C5: for a valid offset and limit a successful list response holds at most
\* limit records, and its count is the upstream total whatever the limit.
C5_AtMostLimitAndUpstreamCount ==
    (/\ listResp.status = 200
     /\ Asked(listQuery.offset, 0) >= 0
     /\ Asked(listQuery.limit, 20) > 0) =>
        /\ Len(listResp.results) <= Asked(listQuery.limit, 20)
        /\ listResp.count = MaxItems

\* a successful page cut short by its limit
C5_Witness ==
    /\ listResp.status = 200
    /\ listQuery.limit = <<"1">>
    /\ Len(listResp.results) = 1
    /\ listResp.count > 1

\* a query text with no digit in it, which no reading takes for a number
HasNoDigit(text) == text = Missing \/ \A j \in 1..Len(text) : ~IsDigit(text[j])

\* C6: offset is 0 and limit is 20 when the parameter is missing or not
\* numeric, and a numeric parameter is forwarded with the value supplied,
\* zero and negative integers included.  (Stated on the texts that are
\* integer literals and on those without any digit.)
C6_QueryForwarded ==
    listPc # "idle" =>
        /\ IsNumeric(listQuery.offset) => listArgs.offset = SuppliedValue(listQuery.offset)
        /\ IsNumeric(listQuery.limit) => listArgs.limit = SuppliedValue(listQuery.limit)
        /\ HasNoDigit(listQuery.offset) => listArgs.offset = 0
        /\ HasNoDigit(listQuery.limit) => listArgs.limit = 20

\* the label the claim expects for a key under a cache
CachedOrRaw(cache, k) == IF k \in DOMAIN cache THEN cache[k] ELSE k

C8_SpeciesFailureIs500 ==
    (detFetch.primary = "ok" /\ detFetch.species = "failed") =>
        /\ detPc = "sent"
        /\ detResp.status = 500
        /\ DOMAIN detResp = {"status", "message"}
        /\ detResp.message = "Failed to fetch pokemon " \o detId

\* a species call that failed after the primary detail had arrived
C8_Witness ==
    /\ detFetch.primary = "ok"
    /\ detFetch.species = "failed"
    /\ detData # NoData
    /\ detPc = "sent"

\* a reference that is there: neither null, undefined nor empty
Present(v) == v \notin {Null, Undefined, ""}

\* the animated sprite of a primary detail, undefined when its path breaks off
AnimatedSprite(sprites) ==
    IF Len(sprites.animated) = 5 THEN sprites.animated[5] ELSE Undefined

\* the official artwork of a primary detail, undefined when its path breaks off
OfficialArtwork(sprites) ==
    IF Len(sprites.artwork) = 3 THEN sprites.artwork[3] ELSE Undefined

\* C9: animatedImageUrl is the animated sprite when the primary detail has
\* one and null when it has none; defaultImageUrl is the official artwork if
\* present, else the plain front sprite, whether or not the animated sprite
\* exists.
C9_ImageSelection ==
    listResp.status = 200 =>
        \A i \in 1..Len(listResp.results) :
            LET sprites == upSprites[IndexOf(RefId(listPage.results[i]))]
                record  == listResp.results[i]
            IN  /\ record.animatedImageUrl =
                      IF Present(AnimatedSprite(sprites)) THEN AnimatedSprite(sprites) ELSE Null
                /\ record.defaultImageUrl =
                      IF Present(OfficialArtwork(sprites)) THEN OfficialArtwork(sprites)
                      ELSE sprites.front_default

\* a record with an animated sprite whose default image is the front sprite,
\* the artwork missing
C9_Witness ==
    /\ listResp.status = 200
    /\ Len(listResp.results) = 1
    /\ listResp.results[1].animatedImageUrl = "gif_a"
    /\ listResp.results[1].defaultImageUrl = "png_b"
    /\ ~Present(OfficialArtwork(upSprites[1]))

\* C10: a successful detail response equals the upstream primary detail in
\* every field but name and types.
C10_OtherFieldsPassThrough ==
    detResp.status = 200 =>
        LET payload == PokemonData(IndexOf(detId))
        IN  /\ DOMAIN detResp.body = DOMAIN payload
            /\ \A f \in DOMAIN payload \ {"name", "types"} : detResp.body[f] = payload[f]

\* a detail record whose name and types were replaced
C10_Witness ==
    /\ detResp.status = 200
    /\ detResp.body.name = "ko_bulbasaur"
    /\ detResp.body.types # PokemonData(IndexOf(detId)).types
    /\ detResp.body.height = PokemonData(IndexOf(detId)).height

\* a 200 detail response whose every label is the raw key
DetailLabelsRaw ==
    detResp.status = 200 =>
        \A j \in 1..Len(detResp.body.types) :
            detResp.body.types[j].koreanName = detResp.body.types[j].englishName

\* every list record built so far carries the raw keys of its creature
ListLabelsRaw ==
    \A i \in 1..Len(itemOut) :
        itemOut[i] # NoData =>
            LET keys == TypesOf(IndexOf(RefId(listPage.results[i])))
            IN  itemOut[i].types = [j \in 1..Len(keys) |-> keys[j]]

\* C15: when the enumeration call of loadTypeTranslations fails, the cache
\* stays empty, no per-category call is issued, the running message is still
\* printed, requests are still accepted, and every label emitted is the raw key.
C15_EnumerationFailure ==
    enumFetch = "failed" =>
        /\ DOMAIN typeKoreanNames = {}
        /\ \A k \in TypeKeys : typeFetch[k] = "idle"
        /\ initPc = "done"
        /\ initLog = <<"loading", "error", "running">>
        /\ detPc = "idle" => ENABLED (\E id \in RequestIds : DetailRequest(id))
        /\ listPc = "idle" => ENABLED (\E qo \in ServedOffsets, ql \in ServedLimits : ListRequest(qo, ql))
        /\ DetailLabelsRaw
        /\ ListLabelsRaw

\* after a failed enumeration both endpoints have answered 200 with raw keys
C15_Witness ==
    /\ enumFetch = "failed"
    /\ detResp.status = 200
    /\ detResp.body.types[1].koreanName = "fire"
    /\ listResp.status = 200
    /\ listResp.results[1].types[1] = "fire"

\* C16: the species call of the detail handler is issued only after the
\* primary call has returned successfully; when the primary call fails the
\* species call is never issued and the answer is 500.
C16_SpeciesAfterPrimary ==
    /\ detFetch.species # "idle" => detFetch.primary = "ok"
    /\ detFetch.primary = "failed" =>
          /\ detFetch.species = "idle"
          /\ detPc = "sent"
          /\ detResp.status = 500

\* a primary call that failed: answered 500, species call never issued
C16_Witness ==
    /\ detFetch.primary = "failed"
    /\ detFetch.species = "idle"
    /\ detResp.status = 500
    /\ detSent = 1

\* a step in which the list handler answers 500
ListFailsNow == listResp.status # 500 /\ listResp'.status = 500

\* a step in which the detail handler answers 500
DetailFailsNow == detResp.status # 500 /\ detResp'.status = 500

\* the 200 answer the detail handler owes to its own upstream data and the cache
DetailAnswerAlone ==
    LET idx == IndexOf(detId)
    IN  [status |-> 200,
         body   |-> DetailBody(PokemonData(idx),
                               OrElse(FindKo(SpeciesData(idx).names), PokemonData(idx).name),
                               DetailTypes(typeKoreanNames, PokemonData(idx)))]

\* the records the list handler owes to its own upstream data and the cache
\* read when each record was built
ListAnswerAlone ==
    /\ listResp'.count = listPage.count
    /\ Len(listResp'.results) = Len(listPage.results)
    /\ \A i \in 1..Len(listPage.results) :
          LET ref == listPage.results[i]
              idx == IndexOf(RefId(ref))
          IN  \E cache \in {[k \in K |-> "ko_" \o k] : K \in SUBSET {"fire", "water"}} :
                 listResp'.results[i] =
                    BuildSummary(ref, PokemonData(idx), SpeciesData(idx), cache)

\* C17: a failed list or detail request affects only itself: the step that
\* answers 500 leaves the translation cache, the startup and the other
\* handler's request untouched, and a request that runs beside or after a
\* failed one is answered from its own upstream data as if the failure had not
\* happened.
C17_FailureScoped ==
    [][/\ ListFailsNow => UNCHANGED <<startupVars, detailVars, upSprites>>
       /\ DetailFailsNow => UNCHANGED <<startupVars, listVars, upSprites>>
       /\ (listResp.status = 500 /\ detFetch.species = "pending" /\ detFetch'.species = "ok") =>
             detResp' = DetailAnswerAlone
       /\ (detResp.status = 500 /\ listResp.status = 0 /\ listResp'.status # 0
              /\ ~AnyListFailure') =>
             /\ listResp'.status = 200
             /\ ListAnswerAlone]_vars

\* a list request failed, the cache holds labels, and the detail request
\* beside it was answered 200
C17_Witness ==
    /\ listResp.status = 500
    /\ detResp.status = 200
    /\ detFetch.species = "ok"
    /\ DOMAIN typeKoreanNames # {}

\* every upstream call of the list request has succeeded or failed
ListCallsComplete ==
    /\ listPc \notin {"idle", "list"}
    /\ \A i \in 1..Len(itemFetch) :
          /\ itemFetch[i].detail \in {"ok", "failed"}
          /\ itemFetch[i].species \in {"ok", "failed"}

\* every upstream call of the detail request has succeeded or failed
DetailCallsComplete ==
    \/ detFetch.primary = "failed"
    \/ detFetch.primary = "ok" /\ detFetch.species \in {"ok", "failed"}

\* the sub-calls of the list request that have failed
FailedSubCalls ==
    {<<i, w>> \in (1..Len(itemFetch)) \X {"detail", "species"} : itemFetch[i][w] = "failed"}

\* C18: a request whose upstream calls have all completed has received exactly
\* one response, 200 or 500; no request ever receives two; in the list handler
\* the first failed sub-call is answered 500 at once, whatever is still in
\* flight and however many sub-calls fail afterwards.
C18_ExactlyOneResponse ==
    /\ listSent <= 1
    /\ detSent <= 1
    /\ listSent = 0 <=> listResp = NoResp
    /\ detSent = 0 <=> detResp = NoResp
    /\ ListCallsComplete => listSent = 1 /\ listResp.status \in {200, 500}
    /\ DetailCallsComplete => detSent = 1 /\ detResp.status \in {200, 500}
    /\ FailedSubCalls # {} => listSent = 1 /\ listResp.status = 500

\* sub-calls of two references have failed while another is still in flight,
\* and one 500 has been sent
C18_Witness ==
    /\ \E a, b \in FailedSubCalls : a[1] # b[1]
    /\ \E i \in 1..Len(itemFetch) : itemFetch[i].detail = "pending"
    /\ listSent = 1
    /\ listResp.status = 500
    /\ detSent = 1

\* C11: the frontend has at most one page request in flight at any time.
C11_OneRequestInFlight == Cardinality(inFlight) <= 1

\* C12: the offsets sent to the list endpoint are 0, LIMIT, 2*LIMIT, ... in
\* this order, none twice and none skipped.
C12_OffsetsInOrder ==
    \A i \in 1..Len(requests) : requests[i] = (i - 1) * LIMIT

\* a page shorter than LIMIT has been received
ShortPageReceived ==
    \E i \in 1..Len(received) : received[i].ok /\ received[i].length < LIMIT

\* C13: a received page shorter than LIMIT sets hasMore to false, no page
\* request is issued after it, and hasMore never returns to true once false.
C13_ShortPageIsFinal ==
    [][/\ (~ShortPageReceived /\ ShortPageReceived') => ~pending'.hasMore
       /\ ShortPageReceived => requests' = requests
       /\ ~pending.hasMore => ~pending'.hasMore
       /\ ~rendered.hasMore => ~rendered'.hasMore]_vars

\* no two records of the list have the same id
NoDuplicateId(list) ==
    \A a, b \in 1..Len(list) : list[a].id = list[b].id => a = b

\* the first list is the beginning of the second
IsPrefix(old, new) ==
    /\ Len(old) <= Len(new)
    /\ \A k \in 1..Len(old) : new[k] = old[k]

\* C14: the displayed list never holds two records with the same id, whatever
\* pages are loaded, and a page load never removes or reorders the records
\* already there.
C14_NoDuplicateNoReorder ==
    [][/\ NoDuplicateId(pending'.pokemons)
       /\ NoDuplicateId(rendered'.pokemons)
       /\ IsPrefix(pending.pokemons, pending'.pokemons)
       /\ IsPrefix(rendered.pokemons, rendered'.pokemons)]_vars

\* two full pages were received, the second repeating an id of the first, and
\* the list on screen holds each id once
C14_Witness ==
    /\ Len(received) = 2
    /\ \A i \in 1..2 : received[i].ok /\ received[i].length = LIMIT
    /\ Len(rendered.pokemons) = 2 * LIMIT - 1
    /\ inFlight = {}

\* a page request has failed
FailureReceived == \E i \in 1..Len(received) : ~received[i].ok

\* a step in which a page request fails
FailsNow == Len(received') = Len(received) + 1 /\ ~received'[Len(received')].ok

\* C19: a failing page request leaves the list unchanged, sets the error,
\* sets hasMore and loading to false, and no page request is issued and the
\* list and hasMore stay as they are from then on.
C19_FailureEndsPaging ==
    [][/\ FailsNow =>
             /\ pending'.pokemons = pending.pokemons
             /\ Truthy(pending'.error)
             /\ ~pending'.hasMore
             /\ ~pending'.loading
       /\ FailureReceived =>
             /\ requests' = requests
             /\ pending'.pokemons = pending.pokemons
             /\ ~pending'.hasMore]_vars

\* C20: a page request that fails leaves the page counter unchanged.
C20_FailureKeepsPage ==
    [][FailsNow => pending'.page = pending.page]_vars

=============================================================================
